---- MODULE Spec2Model ----
(***************************************************************************)
(* Model of long_s/_german_conversion.py: convert_german_word and its      *)
(* helpers _crossword_replace, _blueprint_replace, _fill_in_double_s and   *)
(* _find_blank_indices.                                                    *)
(*                                                                         *)
(* A string is a sequence of one-character strings.  The long s is written *)
(* "L" and the unknown-s marker "?" so that the module stays ASCII; "S" is *)
(* the capital s, "z^" a z with a consonant accent, and "a:", "o:", "u:"   *)
(* the umlauts.                                                            *)
(***************************************************************************)
EXTENDS Integers, Sequences, FiniteSets, TLC

\* ---------------------------------------------------------------- bounds
MaxLen == 5

\* ------------------------------------------------------------ characters
UNKNOWN_S == "?"
LONG_S == "L"
SHORT_S == "s"

LowerLetters == {"s", "a", "k", "z"}
FirstLetters == LowerLetters \cup {"S", "z^"}

WordsOfLen(n) ==
    {w \in [1..n -> FirstLetters] : \A i \in 2..n : w[i] \in LowerLetters}

Words == UNION {WordsOfLen(n) : n \in 0..MaxLen}

\* ------------------------------------------------- Python string helpers
Min(a, b) == IF a < b THEN a ELSE b

\* text[a:b] with 0-based, half-open, clipped bounds (0 <= a, 0 <= b).
PySlice(text, a, b) ==
    LET lo == Min(a, Len(text))
        hi == Min(b, Len(text))
    IN  IF hi <= lo THEN <<>> ELSE SubSeq(text, lo + 1, hi)

\* pat occurs in text at the 1-based position i.
StartsWithAt(text, pat, i) ==
    /\ i + Len(pat) - 1 <= Len(text)
    /\ \A j \in 1..Len(pat) : text[i + j - 1] = pat[j]

\* str.replace(old, new): leftmost, non-overlapping occurrences.
RECURSIVE ReplaceFrom(_, _, _, _)
ReplaceFrom(text, old, new, i) ==
    IF i > Len(text) THEN <<>>
    ELSE IF StartsWithAt(text, old, i)
         THEN new \o ReplaceFrom(text, old, new, i + Len(old))
         ELSE <<text[i]>> \o ReplaceFrom(text, old, new, i + 1)

StrReplace(text, old, new) == ReplaceFrom(text, old, new, 1)

\* [m.start() for m in re.finditer(re.escape(pat), text)], 1-based.
RECURSIVE FindIterFrom(_, _, _)
FindIterFrom(text, pat, i) ==
    IF i + Len(pat) - 1 > Len(text) THEN <<>>
    ELSE IF StartsWithAt(text, pat, i)
         THEN <<i>> \o FindIterFrom(text, pat, i + Len(pat))
         ELSE FindIterFrom(text, pat, i + 1)

FindIter(text, pat) == FindIterFrom(text, pat, 1)

\* word.lower() on the model's alphabet.
LowerChar(c) == IF c = "S" THEN "s" ELSE c
PyLower(w) == [i \in 1..Len(w) |-> LowerChar(w[i])]

\* strip_consonant_accents: position for position, consonant accents removed.
StripChar(c) == IF c = "z^" THEN "z" ELSE c
strip_consonant_accents(w) == [i \in 1..Len(w) |-> StripChar(w[i])]

\* transfer_long_S(resolved, original): the long s of resolved laid over the
\* original's letters, position for position.
transfer_long_S(resolved, original) ==
    [i \in 1..Len(resolved) |->
        IF resolved[i] = LONG_S THEN LONG_S
        ELSE IF i <= Len(original) THEN original[i]
        ELSE resolved[i]]

\* term.replace("ſ", "s")
NoLongS(term) == StrReplace(term, <<LONG_S>>, <<SHORT_S>>)

HasUnknown(text) == \E i \in 1..Len(text) : text[i] = UNKNOWN_S

\* ------------------------------------------------------------ primitives
\* itertools.product(*options): the last position varies fastest.
PrependAll(c, combos) == [j \in 1..Len(combos) |-> <<c>> \o combos[j]]

\* Variant of Combos that also swaps the two allographs for one another.
RECURSIVE CombosAnyAllograph(_)
CombosAnyAllograph(spelling_pattern) ==
    IF spelling_pattern = <<>> THEN << <<>> >>
    ELSE LET c == Head(spelling_pattern)
             rest == CombosAnyAllograph(Tail(spelling_pattern))
         IN  IF c \in {LONG_S, SHORT_S}
             THEN PrependAll(SHORT_S, rest) \o PrependAll(LONG_S, rest)
                      \o PrependAll(UNKNOWN_S, rest)
             ELSE PrependAll(c, rest)

RECURSIVE Combos(_)
Combos(spelling_pattern) ==
    IF spelling_pattern = <<>> THEN << <<>> >>
    ELSE LET c == Head(spelling_pattern)
             rest == Combos(Tail(spelling_pattern))
         IN  IF c \in {LONG_S, SHORT_S}
             THEN PrependAll(c, rest) \o PrependAll(UNKNOWN_S, rest)
             ELSE PrependAll(c, rest)

PossibleTerms(spelling_pattern) ==
    SelectSeq(Combos(spelling_pattern), HasUnknown)

\* Variant of ReplaceEach with the arguments of str.replace exchanged.
RECURSIVE ReplaceEachSwapped(_, _, _)
ReplaceEachSwapped(text, possible_terms, spelling_pattern) ==
    IF possible_terms = <<>> THEN text
    ELSE ReplaceEachSwapped(
             StrReplace(text, spelling_pattern, Head(possible_terms)),
             Tail(possible_terms), spelling_pattern)

RECURSIVE ReplaceEach(_, _, _)
ReplaceEach(text, possible_terms, spelling_pattern) ==
    IF possible_terms = <<>> THEN text
    ELSE ReplaceEach(StrReplace(text, Head(possible_terms), spelling_pattern),
                     Tail(possible_terms), spelling_pattern)

_crossword_replace(text, spelling_pattern) ==
    IF Len(spelling_pattern) > Len(text)
    THEN [text |-> text, made |-> FALSE]
    ELSE LET new == ReplaceEach(text, PossibleTerms(spelling_pattern),
                                spelling_pattern)
         IN  [text |-> new, made |-> new # text]

RECURSIVE OverwriteAt(_, _, _)
OverwriteAt(text, matched_indices, spelling_pattern) ==
    IF matched_indices = <<>> THEN text
    ELSE LET index == Head(matched_indices) - 1
             end_index == index + Len(spelling_pattern)
         IN  OverwriteAt(PySlice(text, 0, index) \o spelling_pattern
                             \o PySlice(text, end_index, Len(text)),
                         Tail(matched_indices), spelling_pattern)

_blueprint_replace(text, blueprint_text, spelling_pattern) ==
    LET matched_indices == FindIter(blueprint_text, NoLongS(spelling_pattern))
    IN  [text |-> OverwriteAt(text, matched_indices, spelling_pattern),
         made |-> Len(matched_indices) > 0]

\* Variant of _fill_in_double_s that writes long-s + short-s for both pairs.
FillInDoubleSCanonical(word) ==
    StrReplace(StrReplace(word, <<UNKNOWN_S, SHORT_S>>, <<LONG_S, SHORT_S>>),
               <<SHORT_S, UNKNOWN_S>>, <<LONG_S, SHORT_S>>)

_fill_in_double_s(word) ==
    StrReplace(StrReplace(word, <<UNKNOWN_S, SHORT_S>>, <<LONG_S, SHORT_S>>),
               <<SHORT_S, UNKNOWN_S>>, <<SHORT_S, LONG_S>>)

_find_blank_indices(word) == {i \in 1..Len(word) : word[i] = UNKNOWN_S}

\* ---------------------------------------------------------- pattern store
\* The lists of _german_lists, which convert_german_word only reads.  A
\* dictionary is a function on its keys; dict.get(key) is None off the domain.
NoTerms == <<>>
NoDict == <<>>

TableConfigs == {
    [EXACT_MATCHES |-> NoDict, END_PATTERNS |-> NoDict,
     OMNIPRESENT_PATTERNS |-> NoTerms, START_PATTERNS |-> NoDict,
     POSTPROCESS_PATTERNS |-> NoTerms, FORCED_OVERWRITES |-> NoTerms],
    [EXACT_MATCHES |-> ("s" :> << <<"s", "a">>, <<"L", "a", "s">>, <<"L">> >>)
                       @@ ("a" :> << <<"a", "L", "k">> >>),
     END_PATTERNS |-> NoDict,
     OMNIPRESENT_PATTERNS |-> NoTerms, START_PATTERNS |-> NoDict,
     POSTPROCESS_PATTERNS |-> NoTerms, FORCED_OVERWRITES |-> NoTerms],
    [EXACT_MATCHES |-> NoDict,
     END_PATTERNS |-> (<<"s", "a", "k">> :> << <<"a", "s", "a", "k">>,
                                                <<"s", "s", "a", "k">> >>)
                      @@ (<<"s", "k">> :> << <<"a", "L", "k">> >>)
                      @@ (<<"a">> :> << <<"k", "s", "a">>, <<"L", "a", "a">> >>),
     OMNIPRESENT_PATTERNS |-> NoTerms, START_PATTERNS |-> NoDict,
     POSTPROCESS_PATTERNS |-> NoTerms, FORCED_OVERWRITES |-> NoTerms],
    [EXACT_MATCHES |-> NoDict, END_PATTERNS |-> NoDict,
     OMNIPRESENT_PATTERNS |-> << <<"a", "s", "s", "a", "a", "a", "a">>,
                                 <<"L", "a">>, <<"a", "s">>, <<"s", "L", "z">> >>,
     START_PATTERNS |-> NoDict,
     POSTPROCESS_PATTERNS |-> NoTerms, FORCED_OVERWRITES |-> NoTerms],
    [EXACT_MATCHES |-> NoDict, END_PATTERNS |-> NoDict,
     OMNIPRESENT_PATTERNS |-> NoTerms,
     START_PATTERNS |-> ("a" :> << <<"a", "s", "z">>, <<"a", "L">> >>)
                        @@ ("k" :> << <<"k", "L", "s", "a">> >>)
                        @@ ("s" :> << <<"L", "s", "a">> >>),
     POSTPROCESS_PATTERNS |-> << <<"s", "z">>, <<"L", "L", "a">> >>,
     FORCED_OVERWRITES |-> NoTerms],
    [EXACT_MATCHES |-> NoDict, END_PATTERNS |-> NoDict,
     OMNIPRESENT_PATTERNS |-> NoTerms, START_PATTERNS |-> NoDict,
     POSTPROCESS_PATTERNS |-> NoTerms,
     FORCED_OVERWRITES |-> << <<"s", "a">>, <<"a", "L", "k">>,
                              <<"k", "s", "s">> >>],
    [EXACT_MATCHES |-> NoDict,
     END_PATTERNS |-> (<<"z">> :> << <<"L", "z">> >>),
     OMNIPRESENT_PATTERNS |-> << <<"k", "s">> >>,
     START_PATTERNS |-> ("z" :> << <<"z", "s">> >>),
     POSTPROCESS_PATTERNS |-> << <<"L", "k">> >>,
     FORCED_OVERWRITES |-> << <<"z", "s">> >>] }

\* ----------------------------------------------------------------- state
VARIABLES
    word,                        \* the argument of convert_german_word
    tables,                      \* the pattern lists in force
    DEFAULT_UNKNOWNS_TO_LONG_S,  \* the flag of line 92
    FORCE_SHORT_S_BEFORE_Z,      \* the flag of line 93
    blueprint_word,
    clean_word,
    remaining_blank_indices,
    term_index,                  \* position of a for-loop in its list
    old_word,                    \* clean_word when the last step began
    mid_word,                    \* clean_word before the last step's final _fill_in_double_s
    pc,                          \* the step to run next
    ret,                         \* which return statement ended the call
    out                          \* the returned word

vars == <<word, tables, DEFAULT_UNKNOWNS_TO_LONG_S, FORCE_SHORT_S_BEFORE_Z,
          blueprint_word, clean_word, remaining_blank_indices, term_index,
          old_word, mid_word, pc, ret, out>>

EXACT_MATCHES == tables.EXACT_MATCHES
END_PATTERNS == tables.END_PATTERNS
OMNIPRESENT_PATTERNS == tables.OMNIPRESENT_PATTERNS
START_PATTERNS == tables.START_PATTERNS
POSTPROCESS_PATTERNS == tables.POSTPROCESS_PATTERNS
FORCED_OVERWRITES == tables.FORCED_OVERWRITES

\* dict.get(key) as a list: the empty list stands in where Python has None,
\* and HasKey tells the two apart.
HasKey(dict, key) == key \in DOMAIN dict
Get(dict, key) == IF HasKey(dict, key) THEN dict[key] ELSE NoTerms

Init ==
    /\ word \in Words
    /\ tables \in TableConfigs
    /\ DEFAULT_UNKNOWNS_TO_LONG_S \in BOOLEAN
    /\ FORCE_SHORT_S_BEFORE_Z \in BOOLEAN
    /\ blueprint_word = <<>>
    /\ clean_word = <<>>
    /\ remaining_blank_indices = {}
    /\ term_index = 1
    /\ old_word = <<>>
    /\ mid_word = <<>>
    /\ pc = "step0"
    /\ ret = "none"
    /\ out = <<>>

Flags == <<word, tables, DEFAULT_UNKNOWNS_TO_LONG_S, FORCE_SHORT_S_BEFORE_Z>>

\* An IndexError leaves the call without a returned word.
Fault ==
    /\ pc' = "fault"
    /\ UNCHANGED <<blueprint_word, clean_word, remaining_blank_indices,
                   term_index, old_word, mid_word, ret, out>>

\* return transfer_long_S(resolved, word)
Return(site, resolved) ==
    /\ pc' = "done"
    /\ ret' = site
    /\ out' = transfer_long_S(resolved, word)

\* ------------------------------------------------------ step 0, lines 105-116
\* The first term of the exact list that spells clean, or <<>>.
RECURSIVE FirstExact(_, _)
FirstExact(exact_matches_list, clean) ==
    IF exact_matches_list = <<>> THEN <<>>
    ELSE IF NoLongS(Head(exact_matches_list)) = clean
         THEN Head(exact_matches_list)
         ELSE FirstExact(Tail(exact_matches_list), clean)

Step0 ==
    /\ pc = "step0"
    /\ UNCHANGED Flags
    /\ LET clean == strip_consonant_accents(PyLower(word))
       IN  IF Len(clean) = 0
           THEN Fault                        \* clean_word[0], line 108
           ELSE LET term == FirstExact(Get(EXACT_MATCHES, clean[1]), clean)
                IN  /\ clean_word' = clean
                    /\ old_word' = clean
                    /\ mid_word' = clean
                    /\ UNCHANGED <<blueprint_word, remaining_blank_indices,
                                   term_index>>
                    /\ IF term # <<>>
                       THEN Return("exact", term)
                       ELSE /\ pc' = "encode"
                            /\ UNCHANGED <<ret, out>>

\* -------------------------------------------- placeholder encoder, 118-137
\* clean_word[:-1].replace("s", UNKNOWN_S) + clean_word[-1]
MarkAllButLast(clean) ==
    StrReplace(PySlice(clean, 0, Len(clean) - 1), <<SHORT_S>>, <<UNKNOWN_S>>)
        \o <<clean[Len(clean)]>>

\* Variant of InitialRule that leaves the first marker to the later stages.
InitialRuleSkipped(clean) == clean

\* lines 122-123
InitialRule(clean) ==
    IF Len(clean) > 0 /\ clean[1] = UNKNOWN_S
    THEN <<LONG_S>> \o PySlice(clean, 1, Len(clean))
    ELSE clean

\* Variant of PenultimateRule without the exception for a final k.
PenultimateRuleNoK(clean) ==
    LET n == Len(clean)
    IN  IF clean[n - 1] = UNKNOWN_S
        THEN PySlice(clean, 0, n - 2) \o <<LONG_S>> \o PySlice(clean, n - 1, n)
        ELSE clean

\* lines 126-130, for a word of two characters or more
PenultimateRule(clean) ==
    LET n == Len(clean)
    IN  IF clean[n - 1] = UNKNOWN_S
        THEN IF clean[n] # "k"
             THEN PySlice(clean, 0, n - 2) \o <<LONG_S>> \o PySlice(clean, n - 1, n)
             ELSE PySlice(clean, 0, n - 2) \o <<SHORT_S>> \o PySlice(clean, n - 1, n)
        ELSE clean

Encode ==
    /\ pc = "encode"
    /\ UNCHANGED Flags
    /\ LET marked == InitialRule(MarkAllButLast(clean_word))
       IN  IF Len(marked) < 2
           THEN /\ pc' = "fault"             \* clean_word[-2], line 126
                /\ blueprint_word' = clean_word
                /\ clean_word' = marked
                /\ old_word' = clean_word
                /\ mid_word' = marked
                /\ UNCHANGED <<remaining_blank_indices, term_index, ret, out>>
           ELSE LET ruled == PenultimateRule(marked)
                    filled == _fill_in_double_s(ruled)
                    blanks == _find_blank_indices(filled)
                IN  /\ blueprint_word' = clean_word
                    /\ clean_word' = filled
                    /\ old_word' = clean_word
                    /\ mid_word' = ruled
                    /\ remaining_blank_indices' = blanks
                    /\ UNCHANGED term_index
                    /\ IF \A i \in blanks : filled[i] # UNKNOWN_S
                       THEN Return("solved", filled)
                       ELSE /\ pc' = "step1"
                            /\ UNCHANGED <<ret, out>>

\* ------------------------------------------------- step 1, lines 143-157
\* The character class of the lookahead, lines 144 and 146.
LookaheadClass ==
    IF FORCE_SHORT_S_BEFORE_Z
    THEN {"a", "a:", "c", "e", "i", "o", "o:", "p", LONG_S, UNKNOWN_S,
          "t", "u", "u:", "y"}
    ELSE {"a", "a:", "c", "e", "i", "o", "o:", "p", LONG_S, UNKNOWN_S,
          "t", "u", "u:", "y", "z"}

\* [m.start() for m in re.finditer(pattern, clean_word)], line 147
UncertainIndices(clean) ==
    {i \in 1..Len(clean) :
        /\ clean[i] = UNKNOWN_S
        /\ i + 1 <= Len(clean)
        /\ clean[i + 1] \in LookaheadClass}

\* Variant of CertainShortSIndices with the sense of the lookahead reversed.
CertainShortSIndicesReversed(clean) ==
    {i \in 1..Len(clean) :
        clean[i] = UNKNOWN_S /\ i \in UncertainIndices(clean)}

\* lines 150-154
CertainShortSIndices(clean) ==
    {i \in 1..Len(clean) :
        clean[i] = UNKNOWN_S /\ i \notin UncertainIndices(clean)}

\* lines 155-156
FillCertainShortS(clean) ==
    [i \in 1..Len(clean) |->
        IF i \in CertainShortSIndices(clean) THEN SHORT_S ELSE clean[i]]

Step1 ==
    /\ pc = "step1"
    /\ UNCHANGED Flags
    /\ LET decided == FillCertainShortS(clean_word)
       IN  /\ old_word' = clean_word
           /\ mid_word' = decided
           /\ clean_word' = _fill_in_double_s(decided)
    /\ pc' = "step2"
    /\ UNCHANGED <<blueprint_word, remaining_blank_indices, term_index, ret, out>>

\* ------------------------------------------------- step 2, lines 168-193
\* blueprint_word[-n:] for 1 <= n <= len
LastN(text, n) == PySlice(text, Len(text) - n, Len(text))

\* The key of END_PATTERNS that lines 169-177 settle on, or <<>> (None).
EndsKey(blueprint) ==
    IF Len(blueprint) >= 3 /\ HasKey(END_PATTERNS, LastN(blueprint, 3))
    THEN LastN(blueprint, 3)
    ELSE IF Len(blueprint) >= 2 /\ HasKey(END_PATTERNS, LastN(blueprint, 2))
    THEN LastN(blueprint, 2)
    ELSE IF Len(blueprint) >= 1 /\ HasKey(END_PATTERNS, LastN(blueprint, 1))
    THEN LastN(blueprint, 1)
    ELSE <<>>

EndsList(blueprint) ==
    IF EndsKey(blueprint) = <<>> THEN NoTerms
    ELSE END_PATTERNS[EndsKey(blueprint)]

\* lines 182-187 for one term
EndSnippet(clean, blueprint, term) ==
    _blueprint_replace(LastN(clean, Len(term)), LastN(blueprint, Len(term)), term)

\* The loop of lines 180-193: clean_word as line 191 leaves it at the first
\* term that makes a replacement, and whether there was one.
RECURSIVE EndLoop(_, _, _)
EndLoop(clean, blueprint, ends_list) ==
    IF ends_list = <<>> THEN [text |-> clean, made |-> FALSE]
    ELSE LET term == Head(ends_list)
         IN  IF Len(term) <= Len(clean) /\ EndSnippet(clean, blueprint, term).made
             THEN [text |-> PySlice(clean, 0, Len(clean) - Len(term))
                              \o EndSnippet(clean, blueprint, term).text,
                   made |-> TRUE]
             ELSE EndLoop(clean, blueprint, Tail(ends_list))

Step2 ==
    /\ pc = "step2"
    /\ UNCHANGED Flags
    /\ LET r == EndLoop(clean_word, blueprint_word, EndsList(blueprint_word))
       IN  /\ old_word' = clean_word
           /\ mid_word' = r.text
           /\ clean_word' = IF r.made THEN _fill_in_double_s(r.text) ELSE r.text
    /\ pc' = "step3"
    /\ term_index' = 1
    /\ UNCHANGED <<blueprint_word, remaining_blank_indices, ret, out>>

\* ------------------------------------------------- step 3, lines 204-214
\* UNKNOWN_S not in (clean_word[i] for i in remaining_blank_indices)
NoBlankLeft(clean, blank_indices) ==
    \A i \in blank_indices : clean[i] # UNKNOWN_S

\* One pass of the loop of line 205; line 204 runs before the first pass.
Step3 ==
    /\ pc = "step3"
    /\ UNCHANGED Flags
    /\ LET blanks == IF term_index = 1
                     THEN _find_blank_indices(clean_word)
                     ELSE remaining_blank_indices
       IN  IF \/ term_index > Len(OMNIPRESENT_PATTERNS)
              \/ NoBlankLeft(clean_word, blanks)
           THEN /\ pc' = "step4"
                /\ term_index' = 1
                /\ remaining_blank_indices' = blanks
                /\ UNCHANGED <<clean_word, old_word, mid_word>>
           ELSE LET r == _crossword_replace(clean_word,
                                            OMNIPRESENT_PATTERNS[term_index])
                    filled == IF r.made THEN _fill_in_double_s(r.text) ELSE r.text
                IN  /\ old_word' = clean_word
                    /\ mid_word' = r.text
                    /\ clean_word' = filled
                    /\ remaining_blank_indices' =
                           IF r.made THEN _find_blank_indices(filled) ELSE blanks
                    /\ term_index' = term_index + 1
                    /\ pc' = "step3"
    /\ UNCHANGED <<blueprint_word, ret, out>>

\* ------------------------------------------------- step 4, lines 225-240
RECURSIVE StartLoop(_, _)
StartLoop(clean, starts_list) ==
    IF starts_list = <<>> THEN [text |-> clean, made |-> FALSE]
    ELSE LET term == Head(starts_list)
             r == _crossword_replace(PySlice(clean, 0, Len(term)), term)
         IN  IF Len(term) <= Len(clean) /\ r.made
             THEN [text |-> r.text \o PySlice(clean, Len(term), Len(clean)),
                   made |-> TRUE]
             ELSE StartLoop(clean, Tail(starts_list))

Step4 ==
    /\ pc = "step4"
    /\ UNCHANGED Flags
    /\ LET key == blueprint_word[1]
           r == IF /\ HasKey(START_PATTERNS, key)
                   /\ ~NoBlankLeft(clean_word, remaining_blank_indices)
                THEN StartLoop(clean_word, START_PATTERNS[key])
                ELSE [text |-> clean_word, made |-> FALSE]
       IN  /\ old_word' = clean_word
           /\ mid_word' = r.text
           /\ clean_word' = IF r.made THEN _fill_in_double_s(r.text) ELSE r.text
    /\ pc' = "step5"
    /\ term_index' = 1
    /\ UNCHANGED <<blueprint_word, remaining_blank_indices, ret, out>>

\* ------------------------------------------------- step 5, lines 246-252
Step5 ==
    /\ pc = "step5"
    /\ UNCHANGED Flags
    /\ IF \/ term_index > Len(POSTPROCESS_PATTERNS)
          \/ NoBlankLeft(clean_word, remaining_blank_indices)
       THEN /\ pc' = "step6"
            /\ term_index' = 1
            /\ UNCHANGED <<clean_word, old_word, mid_word>>
       ELSE LET r == _crossword_replace(clean_word,
                                        POSTPROCESS_PATTERNS[term_index])
            IN  /\ old_word' = clean_word
                /\ mid_word' = r.text
                /\ clean_word' =
                       IF r.made THEN _fill_in_double_s(r.text) ELSE r.text
                /\ term_index' = term_index + 1
                /\ pc' = "step5"
    /\ UNCHANGED <<blueprint_word, remaining_blank_indices, ret, out>>

\* ------------------------------------------------- step 6, lines 258-264
Step6 ==
    /\ pc = "step6"
    /\ UNCHANGED Flags
    /\ IF term_index > Len(FORCED_OVERWRITES)
       THEN /\ pc' = "result"
            /\ term_index' = 1
            /\ UNCHANGED <<clean_word, old_word, mid_word>>
       ELSE LET term == FORCED_OVERWRITES[term_index]
                r == IF Len(term) <= Len(clean_word)
                     THEN _blueprint_replace(clean_word, blueprint_word, term)
                     ELSE [text |-> clean_word, made |-> FALSE]
            IN  /\ old_word' = clean_word
                /\ mid_word' = r.text
                /\ clean_word' =
                       IF r.made THEN _fill_in_double_s(r.text) ELSE r.text
                /\ term_index' = term_index + 1
                /\ pc' = "step6"
    /\ UNCHANGED <<blueprint_word, remaining_blank_indices, ret, out>>

\* ------------------------------------------------- result, lines 271-278
\* Variant of DefaultResolve that writes short-s when the flag is off.
DefaultResolveBothWays(clean) ==
    IF DEFAULT_UNKNOWNS_TO_LONG_S
    THEN StrReplace(clean, <<UNKNOWN_S>>, <<LONG_S>>)
    ELSE StrReplace(clean, <<UNKNOWN_S>>, <<SHORT_S>>)

\* lines 271-272
DefaultResolve(clean) ==
    IF DEFAULT_UNKNOWNS_TO_LONG_S
    THEN StrReplace(clean, <<UNKNOWN_S>>, <<LONG_S>>)
    ELSE clean

Result ==
    /\ pc = "result"
    /\ UNCHANGED Flags
    /\ old_word' = clean_word
    /\ mid_word' = DefaultResolve(clean_word)
    /\ clean_word' = DefaultResolve(clean_word)
    /\ Return("result", DefaultResolve(clean_word))
    /\ UNCHANGED <<blueprint_word, remaining_blank_indices, term_index>>

Next ==
    \/ Step0
    \/ Encode
    \/ Step1
    \/ Step2
    \/ Step3
    \/ Step4
    \/ Step5
    \/ Step6
    \/ Result

Spec == Init /\ [][Next]_vars

\* =================================================================== claims
\* The Blueprint of the argument: lowercased, consonant accents stripped.
BlueprintOf(w) == strip_consonant_accents(PyLower(w))

\* The call has passed the Placeholder Encoder without an exact-override hit.
PastEncoder ==
    \/ pc \in {"step1", "step2", "step3", "step4", "step5", "step6", "result"}
    \/ pc = "done" /\ ret \in {"solved", "result"}

IsShortS(c) == c # LONG_S /\ LowerChar(c) = SHORT_S

\* A suffix pattern in the list step 2 uses, or a forced overwrite, matches
\* the Blueprint over position i and spells the allograph c there.
SuffixSpells(i, c) ==
    LET B == BlueprintOf(word)
        ends_list == EndsList(B)
    IN  \E j \in 1..Len(ends_list) :
            LET term == ends_list[j]
                offset == Len(B) - Len(term)
            IN  /\ Len(term) <= Len(B)
                /\ NoLongS(term) = LastN(B, Len(term))
                /\ i > offset
                /\ term[i - offset] = c

ForcedSpells(i, c) ==
    LET B == BlueprintOf(word)
    IN  \E j \in 1..Len(FORCED_OVERWRITES) :
            LET term == FORCED_OVERWRITES[j]
            IN  \E m \in 1..Len(B) :
                    /\ StartsWithAt(B, NoLongS(term), m)
                    /\ m <= i /\ i < m + Len(term)
                    /\ term[i - m + 1] = c

BlueprintMatchSpells(i, c) == SuffixSpells(i, c) \/ ForcedSpells(i, c)

\* ----------------------------------------------------------------------- C1
\* C1: for every input word the call returns a string of the input's length,
\* and after every stage the working string is as long as the Blueprint.
C1_LengthPreservation ==
    /\ pc # "fault"
    /\ pc = "done" => Len(out) = Len(word)
    /\ PastEncoder => Len(clean_word) = Len(blueprint_word)

\* What the code does keep: whenever the call gets as far as a stage or a
\* return, the lengths agree.
C1_LengthWhenReturning ==
    /\ pc = "done" => Len(out) = Len(word)
    /\ PastEncoder => Len(clean_word) = Len(blueprint_word)

\* ----------------------------------------------------------------------- C2
\* C2: the call never ends in an out-of-range fault; the empty word gives the
\* empty string and a one-character word is returned unchanged.
C2_TotalOnShortInputs ==
    /\ pc # "fault"
    /\ (pc = "done" /\ Len(word) = 0) => out = <<>>
    /\ (pc = "done" /\ Len(word) = 1) => out = word

\* ----------------------------------------------------------------------- C3
\* C3 as stated: whenever the Blueprint starts with "s", the first character
\* of the returned word is the long s, whatever the pattern tables hold.
C3_InitialLongAnyTables ==
    (pc = "done" /\ Len(word) >= 1 /\ BlueprintOf(word)[1] = SHORT_S)
        => out[1] = LONG_S

\* C3 amended: for a word of two or more characters whose Blueprint starts
\* with "s" and that is no exact-override hit, the encoder makes the first
\* character long-s, and the returned word starts with long-s unless a suffix
\* pattern or forced overwrite matching over the first position spells a
\* short s there.
C3_InitialLong ==
    (Len(word) >= 2 /\ BlueprintOf(word)[1] = SHORT_S /\ PastEncoder) =>
        /\ pc \in {"step1", "step2"} => clean_word[1] = LONG_S
        /\ (pc = "done" /\ (ret = "solved" \/ ~BlueprintMatchSpells(1, SHORT_S)))
               => out[1] = LONG_S

\* A capitalised word starting with S went through all six stages and came
\* back with a long s in front.
C3_Witness ==
    /\ pc = "done" /\ ret = "result"
    /\ word[1] = "S"
    /\ out[1] = LONG_S
    /\ tables.FORCED_OVERWRITES # NoTerms

\* ----------------------------------------------------------------------- C4
\* C4 as stated: in every word of length >= 2 (length 2 included) whose
\* second-to-last Blueprint character is "s" and whose last is "k", the
\* second-to-last position comes out short-s.  Read in the claim's favour:
\* only calls in which no table entry spells that position long are counted.
C4_PenultimateKFromLengthTwo ==
    LET B == BlueprintOf(word)
        n == Len(word)
    IN  (/\ pc = "done" /\ ret # "exact"
         /\ n >= 2 /\ B[n - 1] = SHORT_S /\ B[n] = "k"
         /\ ~BlueprintMatchSpells(n - 1, LONG_S))
            => IsShortS(out[n - 1])

\* C4 amended: the same for words of length >= 3 that are no exact-override
\* hit: the encoder resolves the position to short-s, and the returned word
\* has short-s there unless a suffix pattern or forced overwrite matching
\* over the position spells a long s.  (In a two-character word the position
\* is the first one and the word-initial rule has already made it long.)
C4_PenultimateK ==
    LET B == BlueprintOf(word)
        n == Len(word)
    IN  (n >= 3 /\ B[n - 1] = SHORT_S /\ B[n] = "k" /\ PastEncoder) =>
            /\ pc \in {"step1", "step2"} => clean_word[n - 1] = SHORT_S
            /\ (pc = "done"
                  /\ (ret = "solved" \/ ~BlueprintMatchSpells(n - 1, LONG_S)))
                   => IsShortS(out[n - 1])

\* A word ending in "sk" with an earlier unresolved s went through all the
\* stages and kept the short s before the k.
C4_Witness ==
    LET n == Len(word)
    IN  /\ pc = "done" /\ ret = "result"
        /\ n >= 3
        /\ blueprint_word[n - 1] = SHORT_S /\ blueprint_word[n] = "k"
        /\ out[n - 1] = SHORT_S

\* ----------------------------------------------------------------------- C5
\* C5: a word without "s" is returned unchanged, and in the working string
\* every position whose Blueprint character is not "s" holds the Blueprint
\* character after every stage.
C5_NonSInvariance ==
    LET B == BlueprintOf(word)
        noS == \A i \in 1..Len(B) : B[i] # SHORT_S
    IN  /\ (noS /\ pc \in {"done", "fault"}) => (pc = "done" /\ out = word)
        /\ PastEncoder =>
               \A i \in 1..Len(blueprint_word) :
                   blueprint_word[i] # SHORT_S
                       => clean_word[i] = blueprint_word[i]

\* ----------------------------------------------------------------------- C6
\* The lookahead letters as the claim lists them.
ClaimedLookahead ==
    {"a", "a:", "c", "e", "i", "o", "o:", "p", LONG_S, UNKNOWN_S,
     "t", "u", "u:", "y"}
        \cup (IF FORCE_SHORT_S_BEFORE_Z THEN {} ELSE {"z"})

FollowedByLookahead(text, i) ==
    i + 1 <= Len(text) /\ text[i + 1] \in ClaimedLookahead

\* C6 as stated: the local stage makes every marker followed by a lookahead
\* letter short-s and leaves every other marker unresolved.
C6_FollowedMeansShort ==
    pc = "step2" =>
        \A i \in 1..Len(old_word) :
            old_word[i] = UNKNOWN_S =>
                IF FollowedByLookahead(old_word, i)
                THEN clean_word[i] = SHORT_S
                ELSE clean_word[i] = UNKNOWN_S

\* C6 amended: the local stage makes every marker NOT followed by a lookahead
\* letter short-s; a marker followed by one is never made short-s: it stays
\* unresolved, or the stage's closing Digraph Filler makes it long-s when it
\* touches a short s.
C6_NotFollowedMeansShort ==
    pc = "step2" =>
        \A i \in 1..Len(old_word) :
            old_word[i] = UNKNOWN_S =>
                IF FollowedByLookahead(old_word, i)
                THEN /\ mid_word[i] = UNKNOWN_S
                     /\ clean_word[i] \in {UNKNOWN_S, LONG_S}
                     /\ clean_word[i] = LONG_S =>
                            \/ mid_word[i + 1] = SHORT_S
                            \/ (i > 1 /\ mid_word[i - 1] = SHORT_S)
                ELSE /\ mid_word[i] = SHORT_S
                     /\ clean_word[i] = SHORT_S

\* The local stage has just made one marker short-s and left another, which
\* a lookahead letter follows, unresolved until the filler.
C6_Witness ==
    /\ pc = "step2"
    /\ \E i \in 1..Len(old_word) :
           /\ old_word[i] = UNKNOWN_S
           /\ ~FollowedByLookahead(old_word, i)
           /\ clean_word[i] = SHORT_S
    /\ \E j \in 1..Len(old_word) :
           /\ old_word[j] = UNKNOWN_S
           /\ FollowedByLookahead(old_word, j)
           /\ mid_word[j] = UNKNOWN_S

C9_MonotoneUnresolved ==
    /\ [][pc \notin {"step0", "encode"} =>
            _find_blank_indices(clean_word')
                \subseteq _find_blank_indices(clean_word)]_vars
    /\ [](pc \in {"step4", "step5"} =>
            _find_blank_indices(clean_word) \subseteq remaining_blank_indices)

\* A stage after the encoder resolved one marker and left another.
C9_Witness ==
    /\ pc \in {"step3", "step4", "step5", "step6"}
    /\ _find_blank_indices(clean_word) # _find_blank_indices(old_word)
    /\ _find_blank_indices(clean_word) # {}
    /\ _find_blank_indices(clean_word) \subseteq _find_blank_indices(old_word)

\* ---------------------------------------------------------------------- C10
IsResolvedS(c) == c \in {LONG_S, SHORT_S}

StageKeepsResolved ==
    pc \in {"step1", "step3", "step4", "step5", "result"} =>
        \A i \in 1..Len(clean_word) :
            clean_word[i] # UNKNOWN_S => clean_word'[i] = clean_word[i]

EncoderKeepsFinal ==
    (pc = "encode" /\ pc' # "fault") =>
        clean_word'[Len(clean_word)] = clean_word[Len(clean_word)]

FillerKeepsResolved ==
    \A i \in 1..Len(mid_word) :
        mid_word[i] # UNKNOWN_S => clean_word[i] = mid_word[i]

\* C10: the crossword stages (3, 4, 5), the local stage, default resolution
\* and every Digraph Filler call change marker positions only; the encoder
\* leaves the final character alone.  Only the Blueprint matching of steps 2
\* and 6 is free to change a resolved allograph.
C10_ResolvedFrame ==
    /\ [][StageKeepsResolved]_vars
    /\ [][EncoderKeepsFinal]_vars
    /\ []FillerKeepsResolved

\* A crossword match of the general stage resolved a marker next to
\* allographs that were already resolved, and left those as they were.
C10_Witness ==
    /\ pc = "step3" /\ term_index > 1
    /\ \E j \in 1..Len(old_word) :
           old_word[j] = UNKNOWN_S /\ mid_word[j] # UNKNOWN_S
    /\ \E i \in 1..(Len(old_word) - 1) :
           IsResolvedS(old_word[i]) /\ clean_word[i] = old_word[i]

\* The other half of C10: a forced overwrite did flip a resolved allograph.
C10_ForcedFlip ==
    /\ pc = "step6" /\ term_index > 1
    /\ \E i \in 1..Len(old_word) :
           /\ IsResolvedS(old_word[i]) /\ IsResolvedS(mid_word[i])
           /\ mid_word[i] # old_word[i]

====
